---- MODULE Spec2Model ----
(***************************************************************************)
(* The JSON-backed record store of src/src/cache_fixed.py.                 *)
(*                                                                         *)
(* State: the cache directory `.mp`, the three backing documents           *)
(* (twitter.json, youtube.json, afm.json) and their sibling `.tmp` files.  *)
(* The module keeps nothing in memory between calls, so the filesystem is  *)
(* the whole state of the program.  `call` records the last call (its      *)
(* arguments and what it returned or raised) and `pre` the filesystem      *)
(* that call started from.                                                 *)
(*                                                                         *)
(* Every public function is one action; a call runs to completion          *)
(* (single-threaded, synchronous).                                         *)
(*                                                                         *)
(* Under StepSpec a call is a sequence of filesystem steps and the process  *)
(* can stop between two of them; `run` is the call in progress there (its   *)
(* arguments, the step it is at, what it is writing).  Elsewhere run stays  *)
(* idle.                                                                   *)
(*                                                                         *)
(* fs.other holds what else is in `.mp` (files and directories that are    *)
(* not the documents or their `.tmp` files); only TempSpec puts something   *)
(* there, for rem_temp_files of src/src/utils_fixed.py.                     *)
(*                                                                         *)
(* Under Spec every filesystem call (makedirs, open, remove, rename)       *)
(* succeeds, as in the test suite's temporary root.                        *)
(***************************************************************************)
EXTENDS Naturals, Sequences, FiniteSets, TLC

VARIABLES fs, call, pre, run

vars == <<fs, call, pre, run>>

----------------------------------------------------------------------------
(* Bounds of the model *)

\* Total number of records over the three collections that the model lets
\* an insert reach.
MaxRecords == 3

----------------------------------------------------------------------------
(* Python and JSON values *)

\* A Python dict with string keys is a function from its keys.
EmptyDict == [k \in {} |-> ""]

\* None, as returned by dict.get for a missing key.
None == "<None>"

\* dict.get(key) with the default None
DictGet(d, key) == IF key \in DOMAIN d THEN d[key] ELSE None

\* A merge in which the keys already present win over those of updates.
DictUpdateKeepingOld(d, updates) == d @@ updates

\* dict.update(updates): the keys of updates overwrite, the others stay.
DictUpdate(d, updates) == updates @@ d

\* A JSON value at the top level of a document.  Only arrays carry items.
JArray(items) == [t |-> "array", items |-> items]

\* A JSON value that is no array: null, a number, a string with characters
\* ("string") or without ("emptystring"), an object with keys ("object") or
\* without ("emptyobject").
NonArrayTags == {"null", "number", "string", "emptystring", "object", "emptyobject"}
JNonArray(t) == [t |-> t, items |-> <<>>]

\* What Python raises when the code treats the value as the list of records:
\* len() and iteration raise TypeError for None and a number; the elements
\* of a string or of a dict are strings, which have no get (AttributeError),
\* and neither a string nor a dict has append (AttributeError).
NonListError(value) ==
    IF value.t \in {"null", "number"} THEN "TypeError" ELSE "AttributeError"

\* len(value) == 0 for a value that is no list: its comprehension and its
\* for loop run over nothing.
EmptyNonList(value) == value.t \in {"emptystring", "emptyobject"}

\* The argument `account` / `product` of an insert: any Python value; the
\* code only asks whether it is a dict and, if so, reads its keys.
PyDict(d) == [isdict |-> TRUE, d |-> d]
PyOther   == [isdict |-> FALSE, d |-> EmptyDict]

----------------------------------------------------------------------------
(* Inputs the calls are tried with *)

Ids == {"a1", "a2"}

\* Records offered to insert: with an id (and with or without a nickname),
\* a dict without an id, and a value that is no dict.
AccountArgs ==
    {PyDict([id |-> i]) : i \in Ids}
    \cup {PyDict([id |-> i, nickname |-> "X"]) : i \in Ids}
    \cup {PyDict([nickname |-> "X"]), PyOther}

\* Patches offered to update: one that adds or overwrites a payload key and
\* one that carries an `id` key.
UpdateArgs == {[nickname |-> "Y"], [id |-> "a2"]}

\* Provider names the account functions are called with: the two they
\* accept and one they do not.
ProviderArgs == {"twitter", "youtube", "tiktok"}

\* Arguments of clear_cache; NoProvider is the default None.
NoProvider == "<no provider>"
ClearArgs == {NoProvider, "twitter", "youtube", "afm", "tiktok"}

----------------------------------------------------------------------------
(* Paths and documents *)

\* The backing documents, named by their collection: <root>/.mp/<name>.json
Files == {"twitter", "youtube", "afm"}

\* What a path holds: nothing, or text.  Text that json.load parses to an
\* object has kind "object" and val the parsed object.
Absent == [kind |-> "absent", val |-> EmptyDict]

\* A file that was opened for writing and did not get its whole text.
Partial == [kind |-> "partial", val |-> EmptyDict]

\* Text that is no JSON (json.load raises JSONDecodeError).
Garbage == [kind |-> "garbage", val |-> EmptyDict]

\* JSON text whose value is no object (a list, a number, a string, null).
NonObject == [kind |-> "nonobject", val |-> EmptyDict]

\* json.dump(data, file): the text of the object `data`.
JsonDump(data) == [kind |-> "object", val |-> data]

\* A load that never yields the object.
JsonLoadFails(content) == [ok |-> FALSE, data |-> EmptyDict]

\* json.load(file) followed by the isinstance(data, dict) test: the object
\* when the text parses to one (ok), otherwise not ok.
JsonLoadDict(content) ==
    IF content.kind = "object"
    THEN [ok |-> TRUE, data |-> content.val]
    ELSE [ok |-> FALSE, data |-> EmptyDict]

\* A choice of path that takes the twitter document for every provider.
TwitterPathForAll(provider) == "twitter"

\* get_twitter_cache_path() if provider == "twitter" else get_youtube_cache_path()
AccountCachePath(provider) == IF provider = "twitter" THEN "twitter" ELSE "youtube"

get_afm_cache_path == "afm"

\* A default structure with a second key.
DefaultWithMarker == ("accounts" :> JArray(<<>>)) @@ ("recovered" :> JArray(<<>>))

\* default_structure = {"accounts": []}
AccountsDefault == ("accounts" :> JArray(<<>>))

\* default_structure = {"products": []}
ProductsDefault == ("products" :> JArray(<<>>))

----------------------------------------------------------------------------
(* File helpers *)

PathExists(f, path) == f.doc[path].kind # "absent"

TmpExists(f, path) == f.tmp[path].kind # "absent"

\* The filesystem calls that can fail, by the place of the call.  f.fault is
\* the set of those that fail during the current call (empty: none does).
\*   makedirs     os.makedirs(cache_dir)               _ensure_cache_file_exists
\*   create       open(cache_path, 'w')                _ensure_cache_file_exists
\*   create_dump  json.dump into the opened document   _ensure_cache_file_exists
\*   read         open(cache_path, 'r') / file.read    _read_cache_file
\*   tmp_open     open(temp_path, 'w')                 _write_cache_file
\*   tmp_dump     json.dump into the opened temp file  _write_cache_file
\*   remove       os.remove(cache_path)                _write_cache_file
\*   rename       os.rename(temp_path, cache_path)     _write_cache_file
\*   cleanup      os.remove(temp_path) in the handler  _write_cache_file
\*   clear_<name> os.remove(cache_path)                clear_cache
Fails(f, step) == step \in f.fault

\* A creation that writes the accounts default whatever the collection.
EnsureWithAccountsDefault(f, path, default_structure) ==
    IF ~PathExists(f, path)
    THEN [fs |-> [f EXCEPT !.dir = TRUE,
                           !.doc[path] = JsonDump(("accounts" :> JArray(<<>>)))],
          raised |-> FALSE]
    ELSE [fs |-> f, raised |-> FALSE]

\* Creates the directory and the default document when the document is
\* absent; leaves an existing document alone.  Nothing here is in a try:
\* a failing call raises out of the function (raised), a failing json.dump
\* after the document was opened and truncated.
_ensure_cache_file_exists(f, path, default_structure) ==
    IF PathExists(f, path) THEN [fs |-> f, raised |-> FALSE]
    ELSE IF ~f.dir /\ Fails(f, "makedirs") THEN [fs |-> f, raised |-> TRUE]
    ELSE LET f1 == [f EXCEPT !.dir = TRUE]
         IN  IF Fails(f, "create") THEN [fs |-> f1, raised |-> TRUE]
             ELSE IF Fails(f, "create_dump")
                  THEN [fs |-> [f1 EXCEPT !.doc[path] = Partial], raised |-> TRUE]
                  ELSE [fs |-> [f1 EXCEPT !.doc[path] = JsonDump(default_structure)],
                        raised |-> FALSE]

\* A read that leaves the default document behind.
ReadThenReset(f, path, default_structure) ==
    LET ens == _ensure_cache_file_exists(f, path, default_structure)
        loaded == JsonLoadDict(ens.fs.doc[path])
    IN  [fs |-> [ens.fs EXCEPT !.doc[path] = JsonDump(default_structure)],
         raised |-> ens.raised,
         data |-> IF loaded.ok THEN loaded.data ELSE default_structure]

\* A read that puts the default document in the place of text it cannot use.
ReadRepairing(f, path, default_structure) ==
    LET ens == _ensure_cache_file_exists(f, path, default_structure)
        loaded == JsonLoadDict(ens.fs.doc[path])
    IN  [fs |-> IF loaded.ok THEN ens.fs
                ELSE [ens.fs EXCEPT !.doc[path] = JsonDump(default_structure)],
         raised |-> ens.raised,
         data |-> IF loaded.ok THEN loaded.data ELSE default_structure]

\* Returns the filesystem after the read and the data read: the parsed
\* object, or the default structure when the read fails or the text is no
\* JSON object.  An exception of _ensure_cache_file_exists passes through.
_read_cache_file(f, path, default_structure) ==
    LET ens == _ensure_cache_file_exists(f, path, default_structure)
        loaded == JsonLoadDict(ens.fs.doc[path])
    IN  [fs |-> ens.fs,
         raised |-> ens.raised,
         data |-> IF ~Fails(f, "read") /\ loaded.ok THEN loaded.data
                  ELSE default_structure]

\* A write that keeps the two array fields of the data and drops its other
\* keys.
WriteKnownKeysOnly(f, path, data) ==
    [fs |-> [f EXCEPT !.doc[path] =
                JsonDump([k \in DOMAIN data \cap {"accounts", "products"} |-> data[k]])],
     ok |-> TRUE]

\* A write that removes the target and never renames the temporary file.
WriteWithoutRename(f, path, data) ==
    [fs |-> [f EXCEPT !.tmp[path] = JsonDump(data), !.doc[path] = Absent],
     ok |-> TRUE]

\* An except branch that leaves the temporary file where it is.
WriteFailedKeepingTmp(f, path) == [fs |-> f, ok |-> FALSE]

\* The except branch of _write_cache_file: removes the temporary file if it
\* exists (a failure of that removal is swallowed) and returns False.
WriteFailed(f, path) ==
    [fs |-> IF TmpExists(f, path) /\ ~Fails(f, "cleanup")
            THEN [f EXCEPT !.tmp[path] = Absent]
            ELSE f,
     ok |-> FALSE]

\* Writes the temporary file, removes the target if it exists, renames the
\* temporary file onto the target; the first call that fails ends the write
\* in the except branch.
_write_cache_file(f, path, data) ==
    IF Fails(f, "tmp_open") THEN WriteFailed(f, path)
    ELSE IF Fails(f, "tmp_dump")
         THEN WriteFailed([f EXCEPT !.tmp[path] = Partial], path)
    ELSE LET f1 == [f EXCEPT !.tmp[path] = JsonDump(data)]
         IN  IF PathExists(f1, path) /\ Fails(f, "remove") THEN WriteFailed(f1, path)
             ELSE LET f2 == IF PathExists(f1, path)
                            THEN [f1 EXCEPT !.doc[path] = Absent]
                            ELSE f1
                  IN  IF Fails(f, "rename") THEN WriteFailed(f2, path)
                      ELSE [fs |-> [f2 EXCEPT !.doc[path] = f2.tmp[path],
                                              !.tmp[path] = Absent],
                            ok |-> TRUE]

----------------------------------------------------------------------------
(* What a call returns *)

NoRet == [t |-> "none", items |-> <<>>]

\* The call raised `exception`; nothing after the raise ran.
Raise(f, exception) ==
    [fs |-> f, result |-> exception, ret |-> NoRet, wrote |-> FALSE]

\* The call returned the boolean `ok`.
ReturnBool(f, ok) ==
    [fs |-> f, result |-> IF ok THEN "True" ELSE "False", ret |-> NoRet,
     wrote |-> FALSE]

\* The call returned the value `value`.
ReturnValue(f, value) ==
    [fs |-> f, result |-> "returned", ret |-> value, wrote |-> FALSE]

\* return _write_cache_file(cache_path, data): the call rewrote the document
\* and returned what the write returned.
ReturnWrite(wr) ==
    [fs |-> wr.fs, result |-> IF wr.ok THEN "True" ELSE "False", ret |-> NoRet,
     wrote |-> TRUE]

----------------------------------------------------------------------------
(* The steps of the public functions *)

\* A check that lets every provider name through.
AnyProvider(provider) == TRUE

\* provider not in ["twitter", "youtube"]
ValidProvider(provider) == provider \in {"twitter", "youtube"}

\* A check that only asks for a dict.
AnyDict(account) == account.isdict

\* isinstance(account, dict) and 'id' in account
ValidRecord(account) == account.isdict /\ "id" \in DOMAIN account.d

\* data.get(field, [])
DataGet(data, field) == IF field \in DOMAIN data THEN data[field] ELSE JArray(<<>>)

\* existing_ids = [acc.get('id') for acc in accounts]
ExistingIds(accounts) == {DictGet(accounts[i], "id") : i \in 1..Len(accounts)}

\* A duplicate check that never finds one.
NeverDuplicate(accounts, account) == FALSE

\* account['id'] in existing_ids (account['id'] raises KeyError without the key)
IsDuplicate(accounts, account) == account["id"] \in ExistingIds(accounts)

\* An insert at the front of the list.
PrependRecord(accounts, account) == <<account>> \o accounts

\* accounts.append(account)
AppendRecord(accounts, account) == Append(accounts, account)

\* A removal of the first matching account only.
RemoveFirstMatching(accounts, account_id) ==
    LET hits == {i \in 1..Len(accounts) : DictGet(accounts[i], "id") = account_id}
    IN  IF hits = {} THEN accounts
        ELSE LET first == CHOOSE i \in hits : \A j \in hits : i <= j
             IN  SubSeq(accounts, 1, first - 1) \o SubSeq(accounts, first + 1, Len(accounts))

\* [account for account in accounts if account.get('id') != account_id]
RemoveMatching(accounts, account_id) ==
    SelectSeq(accounts, LAMBDA account : DictGet(account, "id") # account_id)

\* A test that never sees an unchanged count.
AlwaysRemoved(accounts, kept) == FALSE

\* len(accounts) == original_count
NothingRemoved(accounts, kept) == Len(kept) = Len(accounts)

\* A search that settles for the first account when none has the id.
FirstMatchOrFirst(accounts, account_id) ==
    LET hits == {i \in 1..Len(accounts) : DictGet(accounts[i], "id") = account_id}
    IN  IF hits = {} THEN (IF accounts = <<>> THEN 0 ELSE 1)
        ELSE CHOOSE i \in hits : \A j \in hits : i <= j

\* The index of the first account whose id is account_id, 0 when none has it.
FirstMatch(accounts, account_id) ==
    LET hits == {i \in 1..Len(accounts) : DictGet(accounts[i], "id") = account_id}
    IN  IF hits = {} THEN 0 ELSE CHOOSE i \in hits : \A j \in hits : i <= j

\* An update of every account whose id is account_id.
UpdateEveryMatch(accounts, account_id, updates) ==
    [i \in 1..Len(accounts) |->
        IF DictGet(accounts[i], "id") = account_id
        THEN DictUpdate(accounts[i], updates)
        ELSE accounts[i]]

\* for account in accounts: if match: account.update(updates); break
UpdateFirst(accounts, account_id, updates) ==
    LET i == FirstMatch(accounts, account_id)
    IN  IF i = 0 THEN accounts
        ELSE [accounts EXCEPT ![i] = DictUpdate(accounts[i], updates)]

----------------------------------------------------------------------------
(* The public functions: the filesystem after the call and its result *)

get_accounts(f, provider) ==
    IF ~ValidProvider(provider) THEN Raise(f, "ValueError")
    ELSE LET rd == _read_cache_file(f, AccountCachePath(provider), AccountsDefault)
         IN  IF rd.raised THEN Raise(rd.fs, "OSError")
             ELSE ReturnValue(rd.fs, DataGet(rd.data, "accounts"))

add_account(f, provider, account) ==
    IF ~ValidProvider(provider) THEN Raise(f, "ValueError")
    ELSE IF ~ValidRecord(account) THEN Raise(f, "ValueError")
    ELSE LET path == AccountCachePath(provider)
             rd == _read_cache_file(f, path, AccountsDefault)
             accounts == DataGet(rd.data, "accounts")
         IN  IF rd.raised THEN Raise(rd.fs, "OSError")
             ELSE IF accounts.t # "array" THEN Raise(rd.fs, NonListError(accounts))
             ELSE IF "id" \notin DOMAIN account.d THEN Raise(rd.fs, "KeyError")
             ELSE IF IsDuplicate(accounts.items, account.d)
                  THEN ReturnBool(rd.fs, FALSE)
                  ELSE LET added == AppendRecord(accounts.items, account.d)
                           data == ("accounts" :> JArray(added)) @@ rd.data
                           wr == _write_cache_file(rd.fs, path, data)
                       IN  ReturnWrite(wr)

remove_account(f, provider, account_id) ==
    IF ~ValidProvider(provider) THEN Raise(f, "ValueError")
    ELSE LET path == AccountCachePath(provider)
             rd == _read_cache_file(f, path, AccountsDefault)
             accounts == DataGet(rd.data, "accounts")
         IN  IF rd.raised THEN Raise(rd.fs, "OSError")
             ELSE IF EmptyNonList(accounts) THEN ReturnBool(rd.fs, FALSE)
             ELSE IF accounts.t # "array" THEN Raise(rd.fs, NonListError(accounts))
             ELSE LET kept == RemoveMatching(accounts.items, account_id)
                  IN  IF NothingRemoved(accounts.items, kept) THEN ReturnBool(rd.fs, FALSE)
                      ELSE LET data == ("accounts" :> JArray(kept)) @@ rd.data
                               wr == _write_cache_file(rd.fs, path, data)
                           IN  ReturnWrite(wr)

update_account(f, provider, account_id, updates) ==
    IF ~ValidProvider(provider) THEN Raise(f, "ValueError")
    ELSE LET path == AccountCachePath(provider)
             rd == _read_cache_file(f, path, AccountsDefault)
             accounts == DataGet(rd.data, "accounts")
         IN  IF rd.raised THEN Raise(rd.fs, "OSError")
             ELSE IF EmptyNonList(accounts) THEN ReturnBool(rd.fs, FALSE)
             ELSE IF accounts.t # "array" THEN Raise(rd.fs, NonListError(accounts))
             ELSE IF FirstMatch(accounts.items, account_id) = 0
                  THEN ReturnBool(rd.fs, FALSE)
                  ELSE LET updated == UpdateFirst(accounts.items, account_id, updates)
                           data == ("accounts" :> JArray(updated)) @@ rd.data
                           wr == _write_cache_file(rd.fs, path, data)
                       IN  ReturnWrite(wr)

get_products(f) ==
    LET rd == _read_cache_file(f, get_afm_cache_path, ProductsDefault)
    IN  IF rd.raised THEN Raise(rd.fs, "OSError")
        ELSE ReturnValue(rd.fs, DataGet(rd.data, "products"))

add_product(f, product) ==
    IF ~ValidRecord(product) THEN Raise(f, "ValueError")
    ELSE LET path == get_afm_cache_path
             rd == _read_cache_file(f, path, ProductsDefault)
             products == DataGet(rd.data, "products")
         IN  IF rd.raised THEN Raise(rd.fs, "OSError")
             ELSE IF products.t # "array" THEN Raise(rd.fs, NonListError(products))
             ELSE IF "id" \notin DOMAIN product.d THEN Raise(rd.fs, "KeyError")
             ELSE IF IsDuplicate(products.items, product.d)
                  THEN ReturnBool(rd.fs, FALSE)
                  ELSE LET added == AppendRecord(products.items, product.d)
                           data == ("products" :> JArray(added)) @@ rd.data
                           wr == _write_cache_file(rd.fs, path, data)
                       IN  ReturnWrite(wr)

\* A clear that removes a document only when it is named.
ClearNamedOnly(f, provider) ==
    ReturnBool([f EXCEPT !.doc = [p \in Files |->
                                    IF p = provider THEN Absent ELSE f.doc[p]]],
               TRUE)

\* One of the three ifs of clear_cache: removes the document `path` if it
\* is selected and exists; a failing os.remove ends the try (failed).
ClearOne(st, path, provider) ==
    IF st.failed \/ ~(provider = path \/ provider = NoProvider)
       \/ ~PathExists(st.fs, path)
    THEN st
    ELSE IF Fails(st.fs, "clear_" \o path) THEN [fs |-> st.fs, failed |-> TRUE]
    ELSE [fs |-> [st.fs EXCEPT !.doc[path] = Absent], failed |-> FALSE]

\* Removes the document of the named collection, or of all three when
\* provider is None, in the order twitter, youtube, afm; any other name
\* removes nothing.  Returns False when a removal failed.
clear_cache(f, provider) ==
    LET s1 == ClearOne([fs |-> f, failed |-> FALSE], "twitter", provider)
        s2 == ClearOne(s1, "youtube", provider)
        s3 == ClearOne(s2, "afm", provider)
    IN  ReturnBool(s3.fs, ~s3.failed)

----------------------------------------------------------------------------
(* The state machine *)

\* The array field of a collection's document.
ArrayField(path) == IF path = "afm" THEN "products" ELSE "accounts"

\* The records a document holds in its array field (none when it is absent).
Records(f, path) ==
    LET loaded == JsonLoadDict(f.doc[path])
        value == IF loaded.ok THEN DataGet(loaded.data, ArrayField(path)) ELSE JArray(<<>>)
    IN  IF value.t = "array" THEN value.items ELSE <<>>

TotalRecords(f) ==
    Len(Records(f, "twitter")) + Len(Records(f, "youtube")) + Len(Records(f, "afm"))

NoArg == "<no argument>"

\* The record of a call: its arguments and how it ended.
CallRecord(op, provider, record, account_id, updates, out) ==
    [op |-> op, provider |-> provider, record |-> record,
     account_id |-> account_id, updates |-> updates,
     result |-> out.result, ret |-> out.ret, wrote |-> out.wrote]

\* No call is in progress.
Idle ==
    [pc |-> "idle", at |-> "idle", op |-> "none", provider |-> NoArg,
     record |-> PyOther, account_id |-> NoArg, updates |-> EmptyDict,
     old |-> Absent, data |-> EmptyDict, result |-> "none", ret |-> NoRet]

Init ==
    /\ fs = [dir |-> FALSE, doc |-> [p \in Files |-> Absent],
             tmp |-> [p \in Files |-> Absent], fault |-> {}, other |-> {}]
    /\ pre = fs
    /\ run = Idle
    /\ call = [op |-> "none", provider |-> NoArg, record |-> PyOther,
               account_id |-> NoArg, updates |-> EmptyDict,
               result |-> "none", ret |-> NoRet, wrote |-> FALSE]

GetAccounts ==
    \E provider \in ProviderArgs :
        LET out == get_accounts(fs, provider)
        IN  /\ TotalRecords(out.fs) <= MaxRecords
            /\ fs' = out.fs
            /\ pre' = fs
            /\ UNCHANGED run
            /\ call' = CallRecord("get_accounts", provider, PyOther, NoArg, EmptyDict, out)

AddAccount ==
    \E provider \in ProviderArgs, account \in AccountArgs :
        LET out == add_account(fs, provider, account)
        IN  /\ TotalRecords(out.fs) <= MaxRecords
            /\ fs' = out.fs
            /\ pre' = fs
            /\ UNCHANGED run
            /\ call' = CallRecord("add_account", provider, account, NoArg, EmptyDict, out)

RemoveAccount ==
    \E provider \in ProviderArgs, account_id \in Ids :
        LET out == remove_account(fs, provider, account_id)
        IN  /\ TotalRecords(out.fs) <= MaxRecords
            /\ fs' = out.fs
            /\ pre' = fs
            /\ UNCHANGED run
            /\ call' = CallRecord("remove_account", provider, PyOther, account_id,
                                  EmptyDict, out)

UpdateAccount ==
    \E provider \in ProviderArgs, account_id \in Ids, updates \in UpdateArgs :
        LET out == update_account(fs, provider, account_id, updates)
        IN  /\ TotalRecords(out.fs) <= MaxRecords
            /\ fs' = out.fs
            /\ pre' = fs
            /\ UNCHANGED run
            /\ call' = CallRecord("update_account", provider, PyOther, account_id,
                                  updates, out)

GetProducts ==
    LET out == get_products(fs)
    IN  /\ TotalRecords(out.fs) <= MaxRecords
        /\ fs' = out.fs
        /\ pre' = fs
        /\ UNCHANGED run
        /\ call' = CallRecord("get_products", "afm", PyOther, NoArg, EmptyDict, out)

AddProduct ==
    \E product \in AccountArgs :
        LET out == add_product(fs, product)
        IN  /\ TotalRecords(out.fs) <= MaxRecords
            /\ fs' = out.fs
            /\ pre' = fs
            /\ UNCHANGED run
            /\ call' = CallRecord("add_product", "afm", product, NoArg, EmptyDict, out)

ClearCache ==
    \E provider \in ClearArgs :
        LET out == clear_cache(fs, provider)
        IN  /\ TotalRecords(out.fs) <= MaxRecords
            /\ fs' = out.fs
            /\ pre' = fs
            /\ UNCHANGED run
            /\ call' = CallRecord("clear_cache", provider, PyOther, NoArg, EmptyDict, out)

Next ==
    \/ GetAccounts
    \/ AddAccount
    \/ RemoveAccount
    \/ UpdateAccount
    \/ GetProducts
    \/ AddProduct
    \/ ClearCache

Spec == Init /\ [][Next]_vars

----------------------------------------------------------------------------
(* The calls on a filesystem whose calls can fail: FaultSpec.  Each call is *)
(* made with a set of filesystem calls that fail while it runs; pre keeps  *)
(* that set with the filesystem the call started from.                     *)

MaxFaultRecords == 1

NoFault == {}

\* Failures on the read path.
ReadFaults == {{"makedirs"}, {"create"}, {"create_dump"}, {"read"}}

\* Failures on the write path.
WriteFaults == {{"tmp_open"}, {"tmp_dump"}, {"remove"}, {"rename"}}

\* Failures of the removals of clear_cache.
ClearFaults == {{"clear_twitter"}, {"clear_youtube"}, {"clear_afm"}}

FaultProviderArgs == {"twitter", "youtube"}

FaultRecordArgs ==
    {PyDict([id |-> i]) : i \in Ids} \cup {PyDict([id |-> "a1", nickname |-> "X"])}

WithFault(f, fault) == [f EXCEPT !.fault = fault]

FaultyGetAccounts ==
    \E provider \in FaultProviderArgs, fault \in {NoFault} \cup ReadFaults :
        LET out == get_accounts(WithFault(fs, fault), provider)
        IN  /\ TotalRecords(out.fs) <= MaxFaultRecords
            /\ fs' = WithFault(out.fs, NoFault)
            /\ pre' = WithFault(fs, fault)
            /\ UNCHANGED run
            /\ call' = CallRecord("get_accounts", provider, PyOther, NoArg, EmptyDict, out)

FaultyAddAccount ==
    \E provider \in FaultProviderArgs, account \in FaultRecordArgs,
       fault \in {NoFault} \cup ReadFaults \cup WriteFaults :
        LET out == add_account(WithFault(fs, fault), provider, account)
        IN  /\ TotalRecords(out.fs) <= MaxFaultRecords
            /\ fs' = WithFault(out.fs, NoFault)
            /\ pre' = WithFault(fs, fault)
            /\ UNCHANGED run
            /\ call' = CallRecord("add_account", provider, account, NoArg, EmptyDict, out)

FaultyRemoveAccount ==
    \E provider \in FaultProviderArgs, account_id \in Ids,
       fault \in {NoFault} \cup ReadFaults \cup WriteFaults :
        LET out == remove_account(WithFault(fs, fault), provider, account_id)
        IN  /\ TotalRecords(out.fs) <= MaxFaultRecords
            /\ fs' = WithFault(out.fs, NoFault)
            /\ pre' = WithFault(fs, fault)
            /\ UNCHANGED run
            /\ call' = CallRecord("remove_account", provider, PyOther, account_id,
                                  EmptyDict, out)

FaultyUpdateAccount ==
    \E provider \in FaultProviderArgs, account_id \in Ids, updates \in UpdateArgs,
       fault \in {NoFault} \cup ReadFaults \cup WriteFaults :
        LET out == update_account(WithFault(fs, fault), provider, account_id, updates)
        IN  /\ TotalRecords(out.fs) <= MaxFaultRecords
            /\ fs' = WithFault(out.fs, NoFault)
            /\ pre' = WithFault(fs, fault)
            /\ UNCHANGED run
            /\ call' = CallRecord("update_account", provider, PyOther, account_id,
                                  updates, out)

FaultyGetProducts ==
    \E fault \in {NoFault} \cup ReadFaults :
        LET out == get_products(WithFault(fs, fault))
        IN  /\ TotalRecords(out.fs) <= MaxFaultRecords
            /\ fs' = WithFault(out.fs, NoFault)
            /\ pre' = WithFault(fs, fault)
            /\ UNCHANGED run
            /\ call' = CallRecord("get_products", "afm", PyOther, NoArg, EmptyDict, out)

FaultyAddProduct ==
    \E product \in FaultRecordArgs, fault \in {NoFault} \cup ReadFaults \cup WriteFaults :
        LET out == add_product(WithFault(fs, fault), product)
        IN  /\ TotalRecords(out.fs) <= MaxFaultRecords
            /\ fs' = WithFault(out.fs, NoFault)
            /\ pre' = WithFault(fs, fault)
            /\ UNCHANGED run
            /\ call' = CallRecord("add_product", "afm", product, NoArg, EmptyDict, out)

FaultyClearCache ==
    \E provider \in {NoProvider} \cup Files, fault \in {NoFault} \cup ClearFaults :
        LET out == clear_cache(WithFault(fs, fault), provider)
        IN  /\ TotalRecords(out.fs) <= MaxFaultRecords
            /\ fs' = WithFault(out.fs, NoFault)
            /\ pre' = WithFault(fs, fault)
            /\ UNCHANGED run
            /\ call' = CallRecord("clear_cache", provider, PyOther, NoArg, EmptyDict, out)

FaultNext ==
    \/ FaultyGetAccounts
    \/ FaultyAddAccount
    \/ FaultyRemoveAccount
    \/ FaultyUpdateAccount
    \/ FaultyGetProducts
    \/ FaultyAddProduct
    \/ FaultyClearCache

FaultSpec == Init /\ [][FaultNext]_vars

----------------------------------------------------------------------------
(* The writes whose handler can fail too: CleanupSpec.  The mutating calls  *)
(* on one collection, with a failing step of the write and, with it or      *)
(* not, a failing removal of the temporary file in the except branch.       *)

MaxCleanupRecords == 1

\* A failing step of the write together with a failing os.remove(temp_path).
CleanupFaults ==
    {{"tmp_dump", "cleanup"}, {"remove", "cleanup"}, {"rename", "cleanup"}}

CleanupProviderArgs == {"twitter"}

CleanupAddAccount ==
    \E provider \in CleanupProviderArgs, account \in FaultRecordArgs,
       fault \in {NoFault} \cup WriteFaults \cup CleanupFaults :
        LET out == add_account(WithFault(fs, fault), provider, account)
        IN  /\ TotalRecords(out.fs) <= MaxCleanupRecords
            /\ fs' = WithFault(out.fs, NoFault)
            /\ pre' = WithFault(fs, fault)
            /\ UNCHANGED run
            /\ call' = CallRecord("add_account", provider, account, NoArg, EmptyDict, out)

CleanupRemoveAccount ==
    \E provider \in CleanupProviderArgs, account_id \in Ids,
       fault \in {NoFault} \cup WriteFaults \cup CleanupFaults :
        LET out == remove_account(WithFault(fs, fault), provider, account_id)
        IN  /\ TotalRecords(out.fs) <= MaxCleanupRecords
            /\ fs' = WithFault(out.fs, NoFault)
            /\ pre' = WithFault(fs, fault)
            /\ UNCHANGED run
            /\ call' = CallRecord("remove_account", provider, PyOther, account_id,
                                  EmptyDict, out)

CleanupUpdateAccount ==
    \E provider \in CleanupProviderArgs, account_id \in Ids, updates \in UpdateArgs,
       fault \in {NoFault} \cup WriteFaults \cup CleanupFaults :
        LET out == update_account(WithFault(fs, fault), provider, account_id, updates)
        IN  /\ TotalRecords(out.fs) <= MaxCleanupRecords
            /\ fs' = WithFault(out.fs, NoFault)
            /\ pre' = WithFault(fs, fault)
            /\ UNCHANGED run
            /\ call' = CallRecord("update_account", provider, PyOther, account_id,
                                  updates, out)

CleanupNext ==
    \/ CleanupAddAccount
    \/ CleanupRemoveAccount
    \/ CleanupUpdateAccount

CleanupSpec == Init /\ [][CleanupNext]_vars

----------------------------------------------------------------------------
(* Two processes that insert into the same collection: RaceSpec.  Each      *)
(* process makes one add_account('twitter', {'id': <its id>}); the steps    *)
(* are the filesystem calls of the function, and the steps of the two       *)
(* processes interleave freely (the module takes no lock).  Here run maps   *)
(* each process to its call.  The creation of the default document and the  *)
(* write of the temporary file are one step each, os.rename replaces an     *)
(* existing target (POSIX).                                                 *)

Procs == {"p1", "p2"}

\* The id of the record a process inserts.
RaceId(p) == IF p = "p1" THEN "a1" ELSE "a2"

RacePath == AccountCachePath("twitter")

\* A process before its call.  raced: another process changed the files of
\* the collection after this process read the document and before it
\* returned.
IdleProc == [pc |-> "idle", data |-> EmptyDict, result |-> "none", raced |-> FALSE]

RaceInit ==
    /\ fs = [dir |-> FALSE, doc |-> [p \in Files |-> Absent],
             tmp |-> [p \in Files |-> Absent], fault |-> {}, other |-> {}]
    /\ pre = fs
    /\ call = [op |-> "none", provider |-> NoArg, record |-> PyOther,
               account_id |-> NoArg, updates |-> EmptyDict,
               result |-> "none", ret |-> NoRet, wrote |-> FALSE]
    /\ run = [p \in Procs |-> IdleProc]

\* The process has read the document and has not returned.
AfterRead(p) == run[p].pc \in {"tmp_write", "exists", "remove", "rename", "cleanup"}

\* run after process p moved to pc (with the changes `mine` to its own
\* entry) in a step that changed the files: the others that are past their
\* read have raced.
RaceStep(p, mine, changed) ==
    [q \in Procs |->
        IF q = p THEN mine
        ELSE IF changed /\ AfterRead(q) THEN [run[q] EXCEPT !.raced = TRUE]
        ELSE run[q]]

\* add_account is called; the arguments pass the two validations.
RaceBegin ==
    \E p \in Procs :
        /\ run[p].pc = "idle"
        /\ run' = RaceStep(p, [run[p] EXCEPT !.pc = "ensure"], FALSE)
        /\ UNCHANGED <<fs, call, pre>>

\* _ensure_cache_file_exists
RaceEnsure ==
    \E p \in Procs :
        /\ run[p].pc = "ensure"
        /\ fs' = _ensure_cache_file_exists(fs, RacePath, AccountsDefault).fs
        /\ run' = RaceStep(p, [run[p] EXCEPT !.pc = "read"], fs' # fs)
        /\ UNCHANGED <<call, pre>>

\* The read of the document (the default structure when it is not there or
\* no JSON object), the duplicate check and the append.
RaceRead ==
    \E p \in Procs :
        /\ run[p].pc = "read"
        /\ LET loaded == JsonLoadDict(fs.doc[RacePath])
               data == IF loaded.ok THEN loaded.data ELSE AccountsDefault
               accounts == DataGet(data, "accounts")
               account == [id |-> RaceId(p)]
           IN  IF IsDuplicate(accounts.items, account)
               THEN run' = RaceStep(p, [run[p] EXCEPT !.pc = "returned",
                                                      !.result = "False"], FALSE)
               ELSE run' = RaceStep(p,
                              [run[p] EXCEPT
                                 !.pc = "tmp_write",
                                 !.data = ("accounts" :>
                                             JArray(AppendRecord(accounts.items, account)))
                                          @@ data],
                              FALSE)
        /\ UNCHANGED <<fs, call, pre>>

\* with open(temp_path, 'w') as file: json.dump(data, file)
RaceTmpWrite ==
    \E p \in Procs :
        /\ run[p].pc = "tmp_write"
        /\ fs' = [fs EXCEPT !.tmp[RacePath] = JsonDump(run[p].data)]
        /\ run' = RaceStep(p, [run[p] EXCEPT !.pc = "exists"], TRUE)
        /\ UNCHANGED <<call, pre>>

\* if os.path.exists(cache_path)
RaceExists ==
    \E p \in Procs :
        /\ run[p].pc = "exists"
        /\ run' = RaceStep(p, [run[p] EXCEPT !.pc = IF PathExists(fs, RacePath)
                                                    THEN "remove" ELSE "rename"],
                           FALSE)
        /\ UNCHANGED <<fs, call, pre>>

\* os.remove(cache_path): raises when the document is no longer there.
RaceRemove ==
    \E p \in Procs :
        /\ run[p].pc = "remove"
        /\ IF PathExists(fs, RacePath)
           THEN /\ fs' = [fs EXCEPT !.doc[RacePath] = Absent]
                /\ run' = RaceStep(p, [run[p] EXCEPT !.pc = "rename"], TRUE)
           ELSE /\ fs' = fs
                /\ run' = RaceStep(p, [run[p] EXCEPT !.pc = "cleanup"], FALSE)
        /\ UNCHANGED <<call, pre>>

\* os.rename(temp_path, cache_path); return True: raises when the temporary
\* file is no longer there.
RaceRename ==
    \E p \in Procs :
        /\ run[p].pc = "rename"
        /\ IF TmpExists(fs, RacePath)
           THEN /\ fs' = [fs EXCEPT !.doc[RacePath] = fs.tmp[RacePath],
                                    !.tmp[RacePath] = Absent]
                /\ run' = RaceStep(p, [run[p] EXCEPT !.pc = "returned",
                                                     !.result = "True"], TRUE)
           ELSE /\ fs' = fs
                /\ run' = RaceStep(p, [run[p] EXCEPT !.pc = "cleanup"], FALSE)
        /\ UNCHANGED <<call, pre>>

\* The except branch: removes the temporary file if it exists; return False
RaceCleanup ==
    \E p \in Procs :
        /\ run[p].pc = "cleanup"
        /\ fs' = WriteFailed(fs, RacePath).fs
        /\ run' = RaceStep(p, [run[p] EXCEPT !.pc = "returned", !.result = "False"],
                           fs' # fs)
        /\ UNCHANGED <<call, pre>>

RaceNext ==
    \/ RaceBegin
    \/ RaceEnsure
    \/ RaceRead
    \/ RaceTmpWrite
    \/ RaceExists
    \/ RaceRemove
    \/ RaceRename
    \/ RaceCleanup

RaceSpec == RaceInit /\ [][RaceNext]_vars

----------------------------------------------------------------------------
(* rem_temp_files of src/src/utils_fixed.py, run between the calls of       *)
(* CleanupSpec (whose failed writes can leave a temporary file) in a        *)
(* directory that also holds other files and a subdirectory: TempSpec.      *)
(* A file name is the sequence of its parts, each extension with its dot.   *)

\* <name>.json and <name>.json.tmp
DocName(path) == <<path, ".json">>
TmpName(path) == <<path, ".json", ".tmp">>

\* What else the directory can hold: two regular files, one of them a JSON
\* file that is no document of the store, and a subdirectory.
OtherEntries ==
    {[name |-> <<"temp1", ".mp4">>, kind |-> "file"],
     [name |-> <<"cache", ".json">>, kind |-> "file"],
     [name |-> <<"songs">>, kind |-> "dir"]}

\* os.listdir(mp_dir), each name with what os.path.isfile will say of it.
ListDir(f) ==
    {[name |-> DocName(p), kind |-> "file"] : p \in {q \in Files : PathExists(f, q)}}
    \cup {[name |-> TmpName(p), kind |-> "file"] : p \in {q \in Files : TmpExists(f, q)}}
    \cup f.other

\* A test that finds the suffix on no name.
NeverEndsWith(name, suffix) == FALSE

\* file.endswith(suffix), for a suffix that is one part
EndsWith(name, suffix) == name[Len(name)] = suffix

\* os.path.isfile(file_path)
IsFile(entry) == entry.kind = "file"

\* Removes every entry of the directory that is a regular file and whose
\* name does not end in .json; returns how many it removed, 0 when the
\* directory does not exist.
rem_temp_files(f) ==
    IF ~f.dir THEN [fs |-> f, removed_count |-> 0]
    ELSE LET removed == {e \in ListDir(f) : ~EndsWith(e.name, ".json") /\ IsFile(e)}
             gone(name) == \E e \in removed : e.name = name
         IN  [fs |-> [f EXCEPT
                        !.doc = [p \in Files |->
                                   IF gone(DocName(p)) THEN Absent ELSE f.doc[p]],
                        !.tmp = [p \in Files |->
                                   IF gone(TmpName(p)) THEN Absent ELSE f.tmp[p]],
                        !.other = f.other \ removed],
              removed_count |-> Cardinality(removed)]

\* The program (or the user) puts a file or a subdirectory into `.mp`.
CreateEntry ==
    \E entry \in OtherEntries \ fs.other :
        /\ fs' = [fs EXCEPT !.dir = TRUE, !.other = @ \cup {entry}]
        /\ pre' = fs
        /\ UNCHANGED run
        /\ call' = [op |-> "create_entry", provider |-> NoArg, record |-> PyOther,
                    account_id |-> NoArg, updates |-> EmptyDict,
                    result |-> "none", ret |-> NoRet, wrote |-> FALSE]

RemTempFiles ==
    LET out == rem_temp_files(fs)
    IN  /\ fs' = out.fs
        /\ pre' = fs
        /\ UNCHANGED run
        /\ call' = [op |-> "rem_temp_files", provider |-> NoArg, record |-> PyOther,
                    account_id |-> NoArg, updates |-> EmptyDict,
                    result |-> "returned",
                    ret |-> [t |-> "int", items |-> <<out.removed_count>>],
                    wrote |-> FALSE]

TempNext ==
    \/ CleanupAddAccount
    \/ CleanupRemoveAccount
    \/ CleanupUpdateAccount
    \/ CreateEntry
    \/ RemTempFiles

TempSpec == Init /\ [][TempNext]_vars

----------------------------------------------------------------------------
(* The calls on documents that something else wrote: EditSpec.  Between two *)
(* calls a document can be replaced by text the module did not write: text  *)
(* that is no JSON, JSON that is no object, an object without the array      *)
(* field, an object whose array field is no array.                           *)

MaxEditRecords == 1

\* The documents that get foreign text, and the provider the account
\* functions are called with.
EditPaths == {"twitter", "afm"}
EditProviderArgs == {"twitter"}

\* Records offered to insert: those of FaultRecordArgs and records whose id
\* is the empty string or null.
EditRecordArgs ==
    FaultRecordArgs \cup {PyDict([id |-> ""]), PyDict([id |-> None])}

\* An empty collection in an object that has a second top-level key.
WithExtraKey(path) ==
    JsonDump((ArrayField(path) :> JArray(<<>>)) @@ ("version" :> JNonArray("number")))

\* The foreign texts of a document.
EditContents(path) ==
    {Garbage, NonObject, JsonDump(EmptyDict), WithExtraKey(path)}
    \cup {JsonDump((ArrayField(path) :> JNonArray(t))) : t \in NonArrayTags}

\* Another program (or an editor) writes the document.
ExternalWrite ==
    \E path \in EditPaths :
        \E content \in EditContents(path) :
            /\ fs' = [fs EXCEPT !.dir = TRUE, !.doc[path] = content]
            /\ pre' = fs
            /\ UNCHANGED run
            /\ call' = [op |-> "external_write", provider |-> path, record |-> PyOther,
                        account_id |-> NoArg, updates |-> EmptyDict,
                        result |-> "none", ret |-> NoRet, wrote |-> FALSE]

EditedGetAccounts ==
    \E provider \in EditProviderArgs :
        LET out == get_accounts(fs, provider)
        IN  /\ TotalRecords(out.fs) <= MaxEditRecords
            /\ fs' = out.fs
            /\ pre' = fs
            /\ UNCHANGED run
            /\ call' = CallRecord("get_accounts", provider, PyOther, NoArg, EmptyDict, out)

EditedAddAccount ==
    \E provider \in EditProviderArgs, account \in EditRecordArgs :
        LET out == add_account(fs, provider, account)
        IN  /\ TotalRecords(out.fs) <= MaxEditRecords
            /\ fs' = out.fs
            /\ pre' = fs
            /\ UNCHANGED run
            /\ call' = CallRecord("add_account", provider, account, NoArg, EmptyDict, out)

EditedRemoveAccount ==
    \E provider \in EditProviderArgs, account_id \in Ids :
        LET out == remove_account(fs, provider, account_id)
        IN  /\ TotalRecords(out.fs) <= MaxEditRecords
            /\ fs' = out.fs
            /\ pre' = fs
            /\ UNCHANGED run
            /\ call' = CallRecord("remove_account", provider, PyOther, account_id,
                                  EmptyDict, out)

EditedUpdateAccount ==
    \E provider \in EditProviderArgs, account_id \in Ids, updates \in UpdateArgs :
        LET out == update_account(fs, provider, account_id, updates)
        IN  /\ TotalRecords(out.fs) <= MaxEditRecords
            /\ fs' = out.fs
            /\ pre' = fs
            /\ UNCHANGED run
            /\ call' = CallRecord("update_account", provider, PyOther, account_id,
                                  updates, out)

EditedGetProducts ==
    LET out == get_products(fs)
    IN  /\ TotalRecords(out.fs) <= MaxEditRecords
        /\ fs' = out.fs
        /\ pre' = fs
        /\ UNCHANGED run
        /\ call' = CallRecord("get_products", "afm", PyOther, NoArg, EmptyDict, out)

EditedAddProduct ==
    \E product \in EditRecordArgs :
        LET out == add_product(fs, product)
        IN  /\ TotalRecords(out.fs) <= MaxEditRecords
            /\ fs' = out.fs
            /\ pre' = fs
            /\ UNCHANGED run
            /\ call' = CallRecord("add_product", "afm", product, NoArg, EmptyDict, out)

EditNext ==
    \/ ExternalWrite
    \/ EditedGetAccounts
    \/ EditedAddAccount
    \/ EditedRemoveAccount
    \/ EditedUpdateAccount
    \/ EditedGetProducts
    \/ EditedAddProduct

EditSpec == Init /\ [][EditNext]_vars

----------------------------------------------------------------------------
(* The calls step by step: StepSpec.  A call is the sequence of filesystem  *)
(* calls its code makes; the process can stop after any of them (Crash) and *)
(* be started again.  What the call decides after its read is what the      *)
(* function decides on the filesystem it reads.                             *)

MaxStepRecords == 1

\* The calls made, with valid arguments.
StepCalls ==
    {[op |-> "get_accounts", provider |-> "twitter", record |-> PyOther,
      account_id |-> NoArg, updates |-> EmptyDict],
     [op |-> "add_account", provider |-> "twitter", record |-> PyDict([id |-> "a1"]),
      account_id |-> NoArg, updates |-> EmptyDict],
     [op |-> "remove_account", provider |-> "twitter", record |-> PyOther,
      account_id |-> "a1", updates |-> EmptyDict],
     [op |-> "update_account", provider |-> "twitter", record |-> PyOther,
      account_id |-> "a1", updates |-> [nickname |-> "Y"]],
     [op |-> "get_products", provider |-> "afm", record |-> PyOther,
      account_id |-> NoArg, updates |-> EmptyDict],
     [op |-> "add_product", provider |-> "afm", record |-> PyDict([id |-> "a1"]),
      account_id |-> NoArg, updates |-> EmptyDict]}

\* The document the call in progress works on, and its default structure.
RunPath == IF run.op \in {"get_products", "add_product"} THEN "afm" ELSE run.provider

RunDefault == IF RunPath = "afm" THEN ProductsDefault ELSE AccountsDefault

\* What the function of the call in progress does on the filesystem f.
RunOutcome(f) ==
    CASE run.op = "get_accounts" -> get_accounts(f, run.provider)
      [] run.op = "add_account" -> add_account(f, run.provider, run.record)
      [] run.op = "remove_account" -> remove_account(f, run.provider, run.account_id)
      [] run.op = "update_account" ->
            update_account(f, run.provider, run.account_id, run.updates)
      [] run.op = "get_products" -> get_products(f)
      [] run.op = "add_product" -> add_product(f, run.record)

\* The process (started again after a crash) makes a call.
BeginCall ==
    /\ run.pc \in {"idle", "returned", "crashed"}
    /\ \E c \in StepCalls :
          run' = [Idle EXCEPT !.pc = "ensure", !.op = c.op, !.provider = c.provider,
                              !.record = c.record, !.account_id = c.account_id,
                              !.updates = c.updates]
    /\ UNCHANGED <<fs, call, pre>>

\* _ensure_cache_file_exists: the document exists, or the directory is made.
StepEnsure ==
    /\ run.pc = "ensure"
    /\ IF PathExists(fs, RunPath)
       THEN /\ run' = [run EXCEPT !.pc = "read"]
            /\ fs' = fs
       ELSE /\ run' = [run EXCEPT !.pc = "create_open"]
            /\ fs' = [fs EXCEPT !.dir = TRUE]
    /\ UNCHANGED <<call, pre>>

\* open(cache_path, 'w'): the document exists and is empty.
StepCreateOpen ==
    /\ run.pc = "create_open"
    /\ fs' = [fs EXCEPT !.doc[RunPath] = Partial]
    /\ run' = [run EXCEPT !.pc = "create_dump"]
    /\ UNCHANGED <<call, pre>>

\* json.dump(default_structure, file) and the close of the file.
StepCreateDump ==
    /\ run.pc = "create_dump"
    /\ fs' = [fs EXCEPT !.doc[RunPath] = JsonDump(RunDefault)]
    /\ run' = [run EXCEPT !.pc = "read"]
    /\ UNCHANGED <<call, pre>>

\* The read of the document and what the function does with the data: it
\* returns, or goes on to write `data` in the place of the document `old`.
StepRead ==
    /\ run.pc = "read"
    /\ LET out == RunOutcome(fs)
       IN  /\ TotalRecords(out.fs) <= MaxStepRecords
           /\ IF out.wrote
              THEN run' = [run EXCEPT !.pc = "tmp_open", !.old = fs.doc[RunPath],
                                      !.data = out.fs.doc[RunPath].val]
              ELSE run' = [run EXCEPT !.pc = "returned", !.result = out.result,
                                      !.ret = out.ret]
    /\ UNCHANGED <<fs, call, pre>>

\* open(temp_path, 'w'): the temporary file exists and is empty.
StepTmpOpen ==
    /\ run.pc = "tmp_open"
    /\ fs' = [fs EXCEPT !.tmp[RunPath] = Partial]
    /\ run' = [run EXCEPT !.pc = "tmp_dump"]
    /\ UNCHANGED <<call, pre>>

\* json.dump(data, file) and the close of the temporary file.
StepTmpDump ==
    /\ run.pc = "tmp_dump"
    /\ fs' = [fs EXCEPT !.tmp[RunPath] = JsonDump(run.data)]
    /\ run' = [run EXCEPT !.pc = "remove"]
    /\ UNCHANGED <<call, pre>>

\* if os.path.exists(cache_path): os.remove(cache_path)
StepRemove ==
    /\ run.pc = "remove"
    /\ fs' = IF PathExists(fs, RunPath) THEN [fs EXCEPT !.doc[RunPath] = Absent] ELSE fs
    /\ run' = [run EXCEPT !.pc = "rename"]
    /\ UNCHANGED <<call, pre>>

\* os.rename(temp_path, cache_path); return True
StepRename ==
    /\ run.pc = "rename"
    /\ fs' = [fs EXCEPT !.doc[RunPath] = fs.tmp[RunPath], !.tmp[RunPath] = Absent]
    /\ run' = [run EXCEPT !.pc = "returned", !.result = "True"]
    /\ UNCHANGED <<call, pre>>

\* The process stops where it is; the files stay as they are.
Crash ==
    /\ run.pc \notin {"idle", "returned", "crashed"}
    /\ run' = [run EXCEPT !.pc = "crashed", !.at = run.pc]
    /\ UNCHANGED <<fs, call, pre>>

StepNext ==
    \/ BeginCall
    \/ StepEnsure
    \/ StepCreateOpen
    \/ StepCreateDump
    \/ StepRead
    \/ StepTmpOpen
    \/ StepTmpDump
    \/ StepRemove
    \/ StepRename
    \/ Crash

StepSpec == Init /\ [][StepNext]_vars

----------------------------------------------------------------------------
(* The store's operations as the specification names them: list is         *)
(* get_accounts / get_products, insert is add_account / add_product,       *)
(* remove is remove_account, update is update_account.  The product        *)
(* collection has no remove and no update.                                 *)

\* What list returns for a collection on the filesystem f.
List(f, path) ==
    IF path = "afm" THEN get_products(f).ret.items
    ELSE get_accounts(f, path).ret.items

IdsOf(records) == {DictGet(records[i], "id") : i \in 1..Len(records)}

\* The collection the last call worked on.
CallPath ==
    IF call.op \in {"get_products", "add_product"} THEN "afm" ELSE call.provider

\* The last call was an insert / remove / update on a collection it accepts.
IsInsert ==
    \/ call.op = "add_product"
    \/ call.op = "add_account" /\ ValidProvider(call.provider)

IsRemove == call.op = "remove_account" /\ ValidProvider(call.provider)

IsUpdate == call.op = "update_account" /\ ValidProvider(call.provider)

\* The position of the first record of `records` whose id is account_id.
IsFirstWithId(records, i, account_id) ==
    /\ i \in 1..Len(records)
    /\ DictGet(records[i], "id") = account_id
    /\ \A j \in 1..(i - 1) : DictGet(records[j], "id") # account_id

----------------------------------------------------------------------------
(* C1..C10 *)

\* C1: after any sequence of calls, no two records of one collection have
\* the same id.
C1_UniqueIds ==
    \A path \in Files :
        LET l == List(fs, path)
        IN  \A i, j \in 1..Len(l) :
                i # j => DictGet(l[i], "id") # DictGet(l[j], "id")

\* C2: an insert whose id is already in the collection returns False, does
\* not write, and leaves the filesystem and the list result as they were.
C2_DuplicateInsertRejected ==
    (/\ IsInsert
     /\ ValidRecord(call.record)
     /\ call.record.d["id"] \in IdsOf(List(pre, CallPath)))
    => /\ call.result = "False"
       /\ ~call.wrote
       /\ fs = pre
       /\ List(fs, CallPath) = List(pre, CallPath)

\* A duplicate id was offered with other fields than the stored record has.
C2_Witness ==
    /\ IsInsert
    /\ ValidRecord(call.record)
    /\ call.record.d["id"] \in IdsOf(List(pre, CallPath))
    /\ \A i \in 1..Len(List(pre, CallPath)) : List(pre, CallPath)[i] # call.record.d
    /\ call.result = "False"

\* C3: after a successful insert, list holds the record with every field
\* and value it was given, and is one longer than before.
C3_InsertRoundTrip ==
    (IsInsert /\ call.result = "True")
    => LET l == List(fs, CallPath)
       IN  /\ Len(l) = Len(List(pre, CallPath)) + 1
           /\ \E i \in 1..Len(l) :
                /\ DOMAIN l[i] = DOMAIN call.record.d
                /\ \A k \in DOMAIN l[i] : l[i][k] = call.record.d[k]

\* A record with a payload field went into a collection that held a record.
C3_Witness ==
    /\ IsInsert
    /\ call.result = "True"
    /\ "nickname" \in DOMAIN call.record.d
    /\ Len(List(pre, CallPath)) >= 1
    /\ Len(List(fs, CallPath)) >= 2

\* C4: a successful insert puts the record at the end of the list and
\* leaves the earlier records and their order as they were.
C4_InsertAppendsAtEnd ==
    (IsInsert /\ call.result = "True")
    => LET l == List(fs, CallPath)
           l0 == List(pre, CallPath)
       IN  /\ Len(l) = Len(l0) + 1
           /\ l[Len(l)] = call.record.d
           /\ \A i \in 1..Len(l0) : l[i] = l0[i]

\* The third record went in behind two different earlier ones.
C4_Witness ==
    /\ IsInsert
    /\ call.result = "True"
    /\ Len(List(pre, CallPath)) = 2
    /\ List(pre, CallPath)[1] # List(pre, CallPath)[2]
    /\ List(fs, CallPath)[3] = call.record.d

\* C5: after a successful remove, no record of the list has the removed id,
\* and the records with another id are all there, unchanged, in their order.
C5_RemoveFiltersAll ==
    (IsRemove /\ call.result = "True")
    => LET l == List(fs, CallPath)
           l0 == List(pre, CallPath)
       IN  /\ \A i \in 1..Len(l) : DictGet(l[i], "id") # call.account_id
           /\ l = SelectSeq(l0, LAMBDA r : DictGet(r, "id") # call.account_id)

\* Two records had the removed id, and a record with another id stayed.
C5_Witness ==
    /\ IsRemove
    /\ call.result = "True"
    /\ Len(List(pre, CallPath)) = 3
    /\ Len(List(fs, CallPath)) = 1
    /\ DictGet(List(fs, CallPath)[1], "id") # call.account_id

\* C6: a remove of an id no record has returns False, rewrites nothing, and
\* leaves the list result as it was.
C6_RemoveAbsentId ==
    (IsRemove /\ call.account_id \notin IdsOf(List(pre, CallPath)))
    => /\ call.result = "False"
       /\ ~call.wrote
       /\ List(fs, CallPath) = List(pre, CallPath)
       /\ PathExists(pre, CallPath) => fs = pre

\* The id was absent from a collection that held records.
C6_Witness ==
    /\ IsRemove
    /\ call.account_id \notin IdsOf(List(pre, CallPath))
    /\ Len(List(pre, CallPath)) >= 1
    /\ call.result = "False"

\* C7: after a successful update, the record that was the first with the id
\* has the patch's value for every key of the patch and its previous value
\* for every other key it had.
C7_UpdateMerges ==
    (IsUpdate /\ call.result = "True")
    => LET l == List(fs, CallPath)
           l0 == List(pre, CallPath)
       IN  /\ Len(l) = Len(l0)
           /\ \E i \in 1..Len(l0) : IsFirstWithId(l0, i, call.account_id)
           /\ \A i \in 1..Len(l0) :
                IsFirstWithId(l0, i, call.account_id)
                => /\ DOMAIN l[i] = DOMAIN l0[i] \cup DOMAIN call.updates
                   /\ \A k \in DOMAIN call.updates : l[i][k] = call.updates[k]
                   /\ \A k \in DOMAIN l0[i] \ DOMAIN call.updates : l[i][k] = l0[i][k]

\* The patch overwrote a nickname and the id stayed.
C7_Witness ==
    /\ IsUpdate
    /\ call.result = "True"
    /\ call.updates = [nickname |-> "Y"]
    /\ \E i \in 1..Len(List(pre, CallPath)) :
         /\ IsFirstWithId(List(pre, CallPath), i, call.account_id)
         /\ DictGet(List(pre, CallPath)[i], "nickname") = "X"
         /\ List(fs, CallPath)[i] = [id |-> call.account_id, nickname |-> "Y"]

\* C8: an update of an id no record has returns False, rewrites nothing, and
\* leaves every record as it was.
C8_UpdateAbsentId ==
    (IsUpdate /\ call.account_id \notin IdsOf(List(pre, CallPath)))
    => /\ call.result = "False"
       /\ ~call.wrote
       /\ List(fs, CallPath) = List(pre, CallPath)
       /\ PathExists(pre, CallPath) => fs = pre

\* The id was absent from a collection that held records.
C8_Witness ==
    /\ IsUpdate
    /\ call.account_id \notin IdsOf(List(pre, CallPath))
    /\ Len(List(pre, CallPath)) >= 1
    /\ call.result = "False"

\* C9: get_accounts, add_account, remove_account and update_account called
\* with a name that is no provider raise ValueError and leave the cache
\* directory and every document as they were.
C9_InvalidProviderRaises ==
    (/\ call.op \in {"get_accounts", "add_account", "remove_account", "update_account"}
     /\ call.provider \notin {"twitter", "youtube"})
    => /\ call.result = "ValueError"
       /\ fs = pre

\* An unknown name was refused before the cache directory existed.
C9_Witness ==
    /\ call.op \in {"get_accounts", "add_account", "remove_account", "update_account"}
    /\ call.provider = "tiktok"
    /\ call.result = "ValueError"
    /\ ~fs.dir

\* C10: an insert of a dict without an id key, or of a value that is no
\* dict, raises ValueError and leaves the document and the list result as
\* they were.
C10_InsertWithoutIdRaises ==
    (IsInsert /\ ~(call.record.isdict /\ "id" \in DOMAIN call.record.d))
    => /\ call.result = "ValueError"
       /\ fs = pre
       /\ List(fs, CallPath) = List(pre, CallPath)

\* A dict without an id was refused by a collection that held a record.
C10_Witness ==
    /\ IsInsert
    /\ call.record = PyDict([nickname |-> "X"])
    /\ call.result = "ValueError"
    /\ Len(List(fs, CallPath)) >= 1

----------------------------------------------------------------------------
(* C16..C20 under Spec *)

\* The call list makes for a collection on the filesystem f.
ListCall(f, path) ==
    IF path = "afm" THEN get_products(f) ELSE get_accounts(f, path)

\* The last call was a list on a collection it accepts.
IsList ==
    \/ call.op = "get_products"
    \/ call.op = "get_accounts" /\ call.provider \in {"twitter", "youtube"}

\* The text of the default empty document of a collection.
DefaultDocument(path) ==
    IF path = "afm"
    THEN [kind |-> "object", val |-> [products |-> [t |-> "array", items |-> <<>>]]]
    ELSE [kind |-> "object", val |-> [accounts |-> [t |-> "array", items |-> <<>>]]]

\* C16: clear of a collection removes its document, clear without an
\* argument removes all three, both return True whether or not a document
\* was there; the next list of a cleared collection returns the empty
\* sequence and leaves the default document behind.
C16_ClearDeletesAndListRecreates ==
    (call.op = "clear_cache" /\ call.provider \in Files \cup {NoProvider})
    => /\ call.result = "True"
       /\ \A p \in Files :
            IF call.provider \in {p, NoProvider}
            THEN /\ fs.doc[p].kind = "absent"
                 /\ ListCall(fs, p).result = "returned"
                 /\ ListCall(fs, p).ret = [t |-> "array", items |-> <<>>]
                 /\ ListCall(fs, p).fs.doc[p] = DefaultDocument(p)
            ELSE fs.doc[p] = pre.doc[p]

\* clear() removed a document that held a record while another document
\* was already absent.
C16_Witness ==
    /\ call.op = "clear_cache"
    /\ call.provider = NoProvider
    /\ call.result = "True"
    /\ \E p \in Files : Len(Records(pre, p)) >= 1 /\ fs.doc[p].kind = "absent"
    /\ \E p \in Files : pre.doc[p].kind = "absent"

\* C17: list of a collection whose document is absent returns the empty
\* sequence and leaves the collection's default document behind.
C17_ListCreatesDefault ==
    (IsList /\ pre.doc[CallPath].kind = "absent")
    => /\ call.result = "returned"
       /\ call.ret = [t |-> "array", items |-> <<>>]
       /\ fs.doc[CallPath] = DefaultDocument(CallPath)
       /\ fs.dir

\* The product list created afm.json in a directory that did not exist.
C17_Witness ==
    /\ call.op = "get_products"
    /\ pre.doc["afm"].kind = "absent"
    /\ ~pre.dir
    /\ fs.doc["afm"].kind = "object"
    /\ call.result = "returned"

\* C18: a list that directly follows a list of the same collection returns
\* what the first returned and leaves the filesystem as it was.
C18_RepeatedListIdentical ==
    [][(IsList /\ IsList' /\ call'.op = call.op /\ call'.provider = call.provider)
       => (call'.result = call.result /\ call'.ret = call.ret /\ fs' = fs)]_vars

\* A list returned two records and changed nothing on disk.
C18_Witness ==
    /\ IsList
    /\ fs = pre
    /\ call.result = "returned"
    /\ Len(call.ret.items) = 2

\* C20: clear with a name that is neither a collection nor the all form
\* raises ValueError.
C20_ClearInvalidNameRaises ==
    (call.op = "clear_cache" /\ call.provider \notin Files \cup {NoProvider})
    => call.result = "ValueError"

----------------------------------------------------------------------------
(* C13, C19 under FaultSpec *)

\* The calls of a document write that can fail.
WriteSteps == {"tmp_open", "tmp_dump", "remove", "rename"}

\* C13: when a step of the document write fails, the mutating call returns
\* False and the document that was at the target path is still there with
\* the content it had.
C13_FailedWriteKeepsOriginal ==
    (call.wrote /\ pre.fault \cap WriteSteps # {} /\ PathExists(pre, CallPath))
    => /\ call.result = "False"
       /\ fs.doc[CallPath] = pre.doc[CallPath]

\* C19: with a failing filesystem call, a call with valid arguments returns
\* (a value or a boolean); it does not raise.
C19_NoExceptionOnFilesystemFailure ==
    (pre.fault # {} /\ call.op # "clear_cache")
    => call.result \in {"returned", "True", "False"}

----------------------------------------------------------------------------
(* C11, C12 under EditSpec *)

\* C11: list of a collection whose document holds text that is no JSON, or
\* JSON that is no object, returns the empty sequence without raising and
\* leaves the document as it was.
C11_CorruptDocumentListsEmpty ==
    (IsList /\ pre.doc[CallPath].kind \in {"garbage", "nonobject"})
    => /\ call.result = "returned"
       /\ call.ret = JArray(<<>>)
       /\ fs.doc[CallPath] = pre.doc[CallPath]

\* The account list read a document that is no JSON, and the product list
\* had read one that is JSON but no object.
C11_Witness ==
    /\ call.op = "get_accounts"
    /\ pre.doc["twitter"].kind = "garbage"
    /\ fs.doc["twitter"].kind = "garbage"
    /\ fs.doc["afm"].kind = "nonobject"
    /\ call.result = "returned"

\* The document is a JSON object whose array field is missing or no array.
WrongShape(f, path) ==
    /\ f.doc[path].kind = "object"
    /\ \/ ArrayField(path) \notin DOMAIN f.doc[path].val
       \/ f.doc[path].val[ArrayField(path)].t # "array"

\* C12: on a document that is a JSON object whose array field is missing or
\* no array, no call raises, list returns the empty sequence, insert adds
\* the record as to an empty collection, remove and update return False.
C12_WrongShapeBehavesAsEmpty ==
    (call.op \notin {"none", "external_write", "clear_cache"} /\ WrongShape(pre, CallPath))
    => /\ call.result \in {"returned", "True", "False"}
       /\ IsList => call.ret = JArray(<<>>)
       /\ IsInsert => (call.result = "True" /\ List(fs, CallPath) = <<call.record.d>>)
       /\ (IsRemove \/ IsUpdate) => call.result = "False"

----------------------------------------------------------------------------
(* C14, C15 under StepSpec *)

\* The steps of a document write.
WritePcs == {"tmp_open", "tmp_dump", "remove", "rename"}

\* C14: when the process stops inside a document write that replaces a
\* complete document, the target path holds the complete old document or
\* the complete new one.
C14_CrashLeavesOldOrNew ==
    (run.pc = "crashed" /\ run.at \in WritePcs /\ run.old.kind = "object")
    => fs.doc[RunPath] \in {run.old, JsonDump(run.data)}

\* C15: at every step of every call the target path of each collection is
\* absent or holds a complete document.
C15_NeverPartialDocument ==
    \A path \in Files : fs.doc[path].kind \in {"absent", "object"}

\* The written document of a step-by-step call is the document the function
\* leaves as a whole.
StepsAgreeWithCall ==
    (run.pc = "returned" /\ run.result = "True")
    => fs.doc[RunPath] = JsonDump(run.data)

----------------------------------------------------------------------------
(* C21 under EditSpec *)

\* C21: no record of a collection has the empty string or null as its id:
\* insert does not store such a record.
C21_StoredIdsNonEmpty ==
    \A path \in Files :
        LET l == List(fs, path)
        IN  \A i \in 1..Len(l) : DictGet(l[i], "id") \notin {"", None}

----------------------------------------------------------------------------
(* C22 under CleanupSpec *)

\* C22 as stated: after a failed document write the temporary file does not
\* exist, whether or not its removal in the except branch failed.
C22_NoTmpAfterFailedWrite ==
    (call.wrote /\ call.result = "False") => ~TmpExists(fs, CallPath)

\* C22, amended: a write with a failing step returns False; afterwards the
\* temporary file does not exist when its removal in the except branch
\* succeeds, and it is still there when that removal fails (the failure is
\* swallowed).
C22_TmpRemovedUnlessCleanupFails ==
    (call.wrote /\ pre.fault \cap WriteSteps # {})
    => /\ call.result = "False"
       /\ TmpExists(fs, CallPath) <=> Fails(pre, "cleanup")

\* A rename failed on a filesystem that held a temporary file left by an
\* earlier call; the except branch removed the temporary file.
C22_Witness ==
    /\ call.wrote
    /\ call.result = "False"
    /\ pre.fault = {"rename"}
    /\ TmpExists(pre, CallPath)
    /\ ~TmpExists(fs, CallPath)

----------------------------------------------------------------------------
(* C23, C26 under Spec *)

\* C23: an update that returns True leaves the number of records and every
\* record but the first one with the id as they were, later records with
\* the same id included.
C23_UpdateTouchesFirstMatchOnly ==
    (IsUpdate /\ call.result = "True")
    => LET old == List(pre, CallPath)
           new == List(fs, CallPath)
       IN  /\ Len(new) = Len(old)
           /\ \A i \in 1..Len(old) :
                 IsFirstWithId(old, i, call.account_id) \/ new[i] = old[i]

\* An update succeeded on a collection in which a later record had the
\* same id as the first match.
C23_Witness ==
    /\ IsUpdate
    /\ call.result = "True"
    /\ LET old == List(pre, CallPath)
       IN  \E i, j \in 1..Len(old) :
             /\ i < j
             /\ DictGet(old[i], "id") = call.account_id
             /\ DictGet(old[j], "id") = call.account_id
             /\ List(fs, CallPath)[j] = old[j]
             /\ List(fs, CallPath)[i] # old[i]

----------------------------------------------------------------------------
(* C24 under FaultSpec *)

\* C24: when clear returns False, the document of every collection is what
\* it was before the call.
C24_FailedClearKeepsDocuments ==
    (call.op = "clear_cache" /\ call.result = "False")
    => \A path \in Files : fs.doc[path] = pre.doc[path]

\* C26: a call on one collection (list, insert, remove, update, clear with
\* the collection's name) leaves the documents of the other collections as
\* they were: as absent or with the same content.
C26_OtherCollectionsUntouched ==
    (/\ call.op # "none"
     /\ call.op = "clear_cache" => call.provider \in Files)
    => \A path \in Files \ {CallPath} :
          /\ fs.doc[path] = pre.doc[path]
          /\ fs.tmp[path] = pre.tmp[path]

\* An insert into the youtube collection succeeded while the twitter and
\* the product collection each held a record.
C26_Witness ==
    /\ call.op = "add_account"
    /\ call.provider = "youtube"
    /\ call.result = "True"
    /\ Len(Records(pre, "twitter")) = 1
    /\ Len(Records(pre, "afm")) = 1
    /\ fs.doc["twitter"] = pre.doc["twitter"]
    /\ fs.doc["youtube"] # pre.doc["youtube"]

----------------------------------------------------------------------------
(* C27, C29 under EditSpec *)

\* The last call was a call of a store function on a collection.
IsStoreCall ==
    call.op \in {"get_accounts", "add_account", "remove_account", "update_account",
                 "get_products", "add_product"}

\* C27: an insert on a collection whose document is no JSON or no JSON
\* object returns True and leaves a document holding the array field with
\* the inserted record and nothing else; every other call leaves the
\* corrupt document as it was.
C27_InsertReplacesCorruptDocument ==
    (IsStoreCall /\ pre.doc[CallPath].kind \in {"garbage", "nonobject"})
    => IF IsInsert
       THEN /\ call.result = "True"
            /\ fs.doc[CallPath] =
                   JsonDump((ArrayField(CallPath) :> JArray(<<call.record.d>>)))
       ELSE fs.doc[CallPath] = pre.doc[CallPath]

\* An insert of a product replaced a document that was JSON but no object.
C27_Witness ==
    /\ call.op = "add_product"
    /\ pre.doc["afm"].kind = "nonobject"
    /\ call.result = "True"
    /\ Len(Records(fs, "afm")) = 1

\* C29: a call that rewrites a document which is a JSON object leaves every
\* top-level key other than the array field in it, with its value.
C29_OtherTopLevelKeysKept ==
    (IsStoreCall /\ call.wrote /\ call.result = "True"
       /\ pre.doc[CallPath].kind = "object")
    => \A k \in DOMAIN pre.doc[CallPath].val \ {ArrayField(CallPath)} :
          /\ k \in DOMAIN fs.doc[CallPath].val
          /\ fs.doc[CallPath].val[k] = pre.doc[CallPath].val[k]

\* A remove rewrote a document that had a second top-level key.
C29_Witness ==
    /\ call.op = "remove_account"
    /\ call.result = "True"
    /\ "version" \in DOMAIN pre.doc["twitter"].val
    /\ "version" \in DOMAIN fs.doc["twitter"].val
    /\ Len(Records(pre, "twitter")) = 1
    /\ Len(Records(fs, "twitter")) = 0

----------------------------------------------------------------------------
(* C28 under TempSpec *)

\* The regular files of `.mp` whose name does not end in .json: the
\* temporary files left by failed writes and the other such files.
NonJsonFiles(f) ==
    {TmpName(p) : p \in {q \in Files : f.tmp[q].kind # "absent"}}
    \cup {e.name : e \in {x \in f.other : x.kind = "file" /\ x.name[Len(x.name)] # ".json"}}

\* C28: rem_temp_files removes the regular files whose name does not end
\* in .json and nothing else (no .json file, no directory), returns the
\* number of files it removed (0 without the directory or with JSON files
\* only), and leaves the list result of every collection as it was.
C28_RemTempFilesKeepsJson ==
    (call.op = "rem_temp_files")
    => /\ NonJsonFiles(fs) = {}
       /\ fs.doc = pre.doc
       /\ fs.dir = pre.dir
       /\ \A e \in pre.other :
             (e.kind = "dir" \/ e.name[Len(e.name)] = ".json") => e \in fs.other
       /\ fs.other \subseteq pre.other
       /\ call.result = "returned"
       /\ call.ret.items = <<Cardinality(NonJsonFiles(pre))>>
       /\ \A path \in Files : List(fs, path) = List(pre, path)

\* rem_temp_files removed a temporary file of the store and temp1.mp4 and
\* kept twitter.json with its record, cache.json and the subdirectory.
C28_Witness ==
    /\ call.op = "rem_temp_files"
    /\ call.ret.items = <<2>>
    /\ pre.tmp["twitter"].kind # "absent"
    /\ fs.tmp["twitter"].kind = "absent"
    /\ Len(Records(fs, "twitter")) = 1
    /\ Cardinality(fs.other) = 2

----------------------------------------------------------------------------
(* C25 under RaceSpec *)

\* The ids of the records in the collection's document.
RaceStoredIds == IdsOf(Records(fs, RacePath))

RaceWriterFailed ==
    /\ \A p \in Procs : run[p].pc = "returned"
    /\ \E p, q \in Procs : run[p].result = "True" /\ run[q].result = "False"
    /\ fs.doc[RacePath].kind = "absent"

====
